---- MODULE Spec2Model ----
(***************************************************************************)
(* OTP-gated registration, login and password reset of the follower API.   *)
(* State: the user table (prisma.user), the wall clock, the outbound mail  *)
(* channel and the requests in flight.  Every await of a handler is a      *)
(* separate step, so store reads and writes of concurrent requests         *)
(* interleave as they do on the server.                                    *)
(***************************************************************************)
EXTENDS Integers, Sequences, FiniteSets, TLC

VARIABLES users, now, sent, req, nReq, nHash, issued, consumed, kept, plain, session, tried,
          resets

vars == <<users, now, sent, req, nReq, nHash, issued, consumed, kept, plain, session,
         tried, resets>>

-----------------------------------------------------------------------------
(* Bounds of the exploration *)

(* requests accepted plus clock ticks in one run *)
MaxEvents == 2

-----------------------------------------------------------------------------
(* Program constants *)

OTP_TTL_MS == 600000
RandomIntMin == 100000
RandomIntMax == 999999

-----------------------------------------------------------------------------
(* Input alphabets *)

Procs == {"r1", "r2"}

Lower == <<"a", "@", "x">>
Upper == <<"A", "@", "x">>
Emails == {Lower, Upper}
Dotted == <<"A", ".", "a", "@", "gmail.com">>
NoEmail == <<>>

Passwords == {"Pw1", "Pw2"}

OTPSamples == {0, 12345, 100000, 548213, 999999}

Null == "null"
NullTime == 0 - 1

TickMs == OTP_TTL_MS
T0 == TickMs

-----------------------------------------------------------------------------
(* Pure helpers *)

ToLowerChar(c) == IF c = "A" THEN "a" ELSE c

toLowerCase(e) == [i \in 1..Len(e) |-> ToLowerChar(e[i])]

(* express-validator's normalizeEmail with its default options: lower case, *)
(* and for a gmail.com address the dots of the local part are removed       *)
normalizeEmail(e) ==
    IF Len(e) > 0 /\ e[Len(e)] = "gmail.com"
    THEN SelectSeq(toLowerCase(e), LAMBDA c : c # ".")
    ELSE toLowerCase(e)

(* crypto.randomInt(min, max): min <= n < max *)
randomInt(min, max) == {n \in OTPSamples : min <= n /\ n < max}

generateOTP == {ToString(n) : n \in randomInt(RandomIntMin, RandomIntMax)}

(* bcrypt with a per-call random salt: the salt of a call is one no *)
(* earlier call drew                                                *)
hashPassword(password) == [salt |-> nHash + 1, pw |-> password]

comparePassword(password, hash) == hash.pw = password

NoHash == [salt |-> 0, pw |-> ""]

NoUser ==
    [exists |-> FALSE, id |-> 0, fullname |-> "", email |-> NoEmail,
     password |-> NoHash, isVerified |-> FALSE,
     otpCode |-> Null, otpType |-> Null, otpExpiresAt |-> NullTime,
     otpUsed |-> FALSE]

NoToken == [userId |-> 0, email |-> NoEmail]

generateToken(userId, email) == [userId |-> userId, email |-> email]

(* The session token of utils/jwt.js.  jsonwebtoken signs the claims with   *)
(* process.env.JWT_SECRET; the signature is modelled as the pair of the     *)
(* signed claims and the key, so that it matches exactly the claims and the *)
(* key it was made from.  Times inside a token are in seconds.              *)
JWT_SECRET == "JWT_SECRET"

OtherSecret == "other secret"

ExpiresInSeconds == 7 * 24 * 60 * 60

DayMs == 24 * 60 * 60 * 1000

MaxDays == 8

Seconds(ms) == ms \div 1000

NoClaims ==
    [userId |-> 0, email |-> NoEmail, iat |-> 0, exp |-> 0, iss |-> "", aud |-> ""]

jwtSignature(claims, secret) == [over |-> claims, key |-> secret]

NoSigned == [claims |-> NoClaims, sig |-> jwtSignature(NoClaims, "")]

jwtSign(payload, secret, t) ==
    LET claims == [userId |-> payload.userId, email |-> payload.email,
                   iat |-> Seconds(t), exp |-> Seconds(t) + ExpiresInSeconds,
                   iss |-> "follower-api", aud |-> "follower-app"]
    IN  [claims |-> claims, sig |-> jwtSignature(claims, secret)]

jwtVerify_noExpiry(token, secret, t) ==
    IF token.sig # jwtSignature(token.claims, secret)
    THEN [ok |-> FALSE, error |-> "JsonWebTokenError", payload |-> NoClaims]
    ELSE [ok |-> TRUE, error |-> "", payload |-> token.claims]

jwtVerify(token, secret, t) ==
    IF token.sig # jwtSignature(token.claims, secret)
    THEN [ok |-> FALSE, error |-> "JsonWebTokenError", payload |-> NoClaims]
    ELSE IF Seconds(t) >= token.claims.exp
         THEN [ok |-> FALSE, error |-> "TokenExpiredError", payload |-> NoClaims]
         ELSE [ok |-> TRUE, error |-> "", payload |-> token.claims]

NoVerdict == [ok |-> FALSE, error |-> "", payload |-> NoClaims]

NoSession ==
    [token |-> NoSigned, owner |-> NoToken, forged |-> "", checked |-> FALSE,
     at |-> NullTime, result |-> NoVerdict]

NoRes == [status |-> 0, message |-> "", token |-> NoToken]

Res(status, message) == [status |-> status, message |-> message, token |-> NoToken]

ResToken(status, message, token) == [status |-> status, message |-> message, token |-> token]

(* JS relational comparison of a nullable Date with a Date: null -> 0 *)
DateValue(t) == IF t = NullTime THEN 0 ELSE t

(* the four otp columns of a row; kept[e] holds them as they would be had *)
(* cleanupExpiredOTPs never run                                          *)
NoSlot ==
    [otpCode |-> Null, otpType |-> Null, otpExpiresAt |-> NullTime,
     otpUsed |-> FALSE]

SlotOf(user) ==
    [otpCode |-> user.otpCode, otpType |-> user.otpType,
     otpExpiresAt |-> user.otpExpiresAt, otpUsed |-> user.otpUsed]

WithSlot(user, slot) ==
    [user EXCEPT !.otpCode = slot.otpCode, !.otpType = slot.otpType,
                 !.otpExpiresAt = slot.otpExpiresAt, !.otpUsed = slot.otpUsed]

IdleReq ==
    [pc |-> "idle", op |-> "none", email |-> NoEmail, fullname |-> "",
     password |-> "", otp |-> "", type |-> Null, user |-> NoUser,
     foundId |-> 0, genOtp |-> Null, res |-> NoRes,
     at |-> NullTime, seen |-> 0, seenConsumed |-> Null, keptSlot |-> NoSlot,
     compared |-> FALSE, threw |-> "", verified |-> FALSE, mailed |-> FALSE]

-----------------------------------------------------------------------------
(* The user store (prisma.user) *)

findUnique(email) == users[email]

(* verifyOTP with the expiry test off by one: a code still passes at the *)
(* instant it expires                                                    *)
OtpRejected_lateExpiry(user, otp, type, t) ==
    \/ ~user.exists
    \/ user.otpCode # otp
    \/ user.otpType # type
    \/ user.otpUsed
    \/ DateValue(user.otpExpiresAt) < t

(* verifyOTP without the purpose test *)
OtpRejected_anyPurpose(user, otp, type, t) ==
    \/ ~user.exists
    \/ user.otpCode # otp
    \/ user.otpUsed
    \/ DateValue(user.otpExpiresAt) <= t

(* Line 90 of utils/otp: the condition under which verifyOTP returns false, *)
(* evaluated on the row read by findUnique at wall-clock time t.            *)
OtpRejected(user, otp, type, t) ==
    \/ ~user.exists
    \/ user.otpCode # otp
    \/ user.otpType # type
    \/ user.otpUsed
    \/ DateValue(user.otpExpiresAt) <= t

(* storeOTP that does not reset the used flag *)
StoredSlot_keepsUsed(user, otp, type, t) ==
    [user EXCEPT !.otpCode = otp, !.otpType = type,
                 !.otpExpiresAt = t + OTP_TTL_MS]

(* storeOTP that leaves an outstanding code in place and only extends it *)
StoredSlot_keepsOld(user, otp, type, t) ==
    [user EXCEPT !.otpCode = IF user.otpCode = Null THEN otp ELSE user.otpCode,
                 !.otpType = type,
                 !.otpExpiresAt = t + OTP_TTL_MS, !.otpUsed = FALSE]

(* storeOTP that keeps the purpose of a slot that already has one *)
StoredSlot_keepsPurpose(user, otp, type, t) ==
    [user EXCEPT !.otpCode = otp,
                 !.otpType = IF user.otpType = Null THEN type ELSE user.otpType,
                 !.otpExpiresAt = t + OTP_TTL_MS, !.otpUsed = FALSE]

(* storeOTP's prisma.user.update: the slot is overwritten *)
StoredSlot(user, otp, type, t) ==
    [user EXCEPT !.otpCode = otp, !.otpType = type,
                 !.otpExpiresAt = t + OTP_TTL_MS, !.otpUsed = FALSE]

(* verifyOTP whose update also empties the code *)
MarkedUsed_clears(user) == [user EXCEPT !.otpUsed = TRUE, !.otpCode = Null]

(* verifyOTP whose update does not reach the row *)
MarkedUsed_forgets(user) == user

(* verifyOTP's prisma.user.update *)
MarkedUsed(user) == [user EXCEPT !.otpUsed = TRUE]

(* cleanup that runs ahead of the clock: it takes every slot that expires *)
(* within the next ten minutes                                           *)
CleanupMatches_early(user, t) ==
    user.exists /\ user.otpExpiresAt # NullTime /\ user.otpExpiresAt < t + OTP_TTL_MS

(* cleanup that also takes the slots expiring at this very instant *)
CleanupMatches_inclusive(user, t) ==
    user.exists /\ user.otpExpiresAt # NullTime /\ user.otpExpiresAt <= t

(* cleanupExpiredOTPs' updateMany: where otpExpiresAt < now (SQL NULL never matches) *)
CleanupMatches(user, t) ==
    user.exists /\ user.otpExpiresAt # NullTime /\ user.otpExpiresAt < t

(* cleanup that also resets the verification flag *)
ClearedSlot_unverifies(user) ==
    [user EXCEPT !.otpCode = Null, !.otpType = Null,
                 !.otpExpiresAt = NullTime, !.otpUsed = FALSE,
                 !.isVerified = FALSE]

(* cleanup that forgets to null the code *)
ClearedSlot_keepsCode(user) ==
    [user EXCEPT !.otpType = Null, !.otpExpiresAt = NullTime, !.otpUsed = FALSE]

ClearedSlot(user) ==
    [user EXCEPT !.otpCode = Null, !.otpType = Null,
                 !.otpExpiresAt = NullTime, !.otpUsed = FALSE]

(* prisma.user.create of register/initiate *)
(* prisma.user.create with the row verified from the start *)
CreatedUser_verified(id, fullname, email, hash) ==
    [exists |-> TRUE, id |-> id, fullname |-> fullname, email |-> email,
     password |-> hash, isVerified |-> TRUE,
     otpCode |-> Null, otpType |-> Null, otpExpiresAt |-> NullTime,
     otpUsed |-> FALSE]

CreatedUser(id, fullname, email, hash) ==
    [exists |-> TRUE, id |-> id, fullname |-> fullname, email |-> email,
     password |-> hash, isVerified |-> FALSE,
     otpCode |-> Null, otpType |-> Null, otpExpiresAt |-> NullTime,
     otpUsed |-> FALSE]

NextId == Cardinality({e \in Emails : users[e].exists}) + 1

-----------------------------------------------------------------------------
(* Requests *)

Ticks == (now - T0) \div TickMs

Busy(p) == req[p].pc # "idle"

(* A finished request holds its response (pc = "done") until Deliver hands *)
(* it to the client; nothing else is scheduled before that.                *)
Ready == \A q \in Procs : req[q].pc # "done"

(* a new request takes the first slot that holds no request *)
Free(p) ==
    /\ Ready
    /\ ~Busy(p)
    /\ p = "r2" => Busy("r1")
    /\ nReq + Ticks < MaxEvents

NewReq(op, email) ==
    [IdleReq EXCEPT !.op = op, !.email = email]

Started(p, r) == [req EXCEPT ![p] = r]

Respond(r, res) == [r EXCEPT !.pc = "done", !.res = res]

FailMessage(op) ==
    CASE op = "registerInitiate" -> "Failed to initiate registration"
      [] op = "registerVerify" -> "Failed to complete registration"
      [] op = "login" -> "Failed to login"
      [] op = "forgotPassword" -> "Failed to initiate password reset"
      [] op = "resetPassword" -> "Failed to reset password"

(* a catch block that copies the exception's message into the answer *)
Throw_leaksDetail(r, by) ==
    [r EXCEPT !.pc = "done", !.threw = by, !.res = Res(500, by)]

(* an exception of the store ("store") or of the mail channel ("mail") *)
(* reaches the handler's catch block                                   *)
Throw(r, by) ==
    [r EXCEPT !.pc = "done", !.threw = by, !.res = Res(500, FailMessage(r.op))]

SentMessage(r) ==
    CASE r.op = "registerInitiate" /\ r.user.exists ->
            "OTP sent to your email. Please verify to complete registration."
      [] r.op = "registerInitiate" /\ ~r.user.exists ->
            "User created and OTP sent to your email. Please verify to complete registration."
      [] r.op = "login" ->
            "Email not verified. OTP sent to your email. Please verify to login."
      [] r.op = "forgotPassword" ->
            "OTP sent to your email. Please verify to reset your password."

(* Request bodies.  A body with a missing field is rejected before the *)
(* email is looked at, so one such body per route is enough.           *)

RegisterBodies ==
    {[fullname |-> "Ann", email |-> e, password |-> "Pw1"] : e \in Emails} \cup
    {[fullname |-> "Bob", email |-> e, password |-> "Pw2"] : e \in Emails} \cup
    {[fullname |-> "Bob", email |-> Lower, password |-> ""]}

VerifyBodies ==
    {[email |-> e, otp |-> c] : e \in Emails, c \in generateOTP} \cup
    {[email |-> Lower, otp |-> ""]}

ResetBodies ==
    {[email |-> e, otp |-> c, newPassword |-> w] :
        e \in Emails, c \in generateOTP, w \in Passwords} \cup
    {[email |-> Lower, otp |-> "", newPassword |-> "Pw2"]}

LoginBodies ==
    {[email |-> e, password |-> w] : e \in Emails, w \in Passwords} \cup
    {[email |-> Upper, password |-> ""]}

-----------------------------------------------------------------------------
(* POST /register/initiate *)

(* register/initiate that sends a code to every existing user *)
RegisterOutcome_resendsExisting(existingUser) ==
    IF existingUser.exists THEN "resend" ELSE "create"

(* register/initiate that refuses every existing user *)
RegisterOutcome_rejectsExisting(existingUser) ==
    IF existingUser.exists THEN "registered" ELSE "create"

(* lines 36-57: which way register/initiate goes on the row it found *)
RegisterOutcome(existingUser) ==
    IF existingUser.exists
    THEN IF existingUser.isVerified THEN "registered" ELSE "resend"
    ELSE "create"

RegisterInitiate(p) ==
    /\ Free(p)
    /\ \E body \in RegisterBodies :
         LET fullname == body.fullname
             email == body.email
             password == body.password
             r == [NewReq("registerInitiate", email) EXCEPT
                      !.fullname = fullname, !.password = password,
                      !.type = "registration"]
             existingUser == findUnique(email)
         IN  req' = Started(p,
                 IF password = ""
                 THEN Respond(r, Res(400, "Fullname, email, and password are required"))
                 ELSE CASE RegisterOutcome(existingUser) = "registered" ->
                             Respond([r EXCEPT !.user = existingUser],
                                     Res(400, "User already registered"))
                        [] RegisterOutcome(existingUser) = "resend" ->
                             [r EXCEPT !.user = existingUser, !.pc = "storeOTP"]
                        [] RegisterOutcome(existingUser) = "create" ->
                             [r EXCEPT !.pc = "create"])
    /\ nReq' = nReq + 1
    /\ UNCHANGED <<users, now, sent, issued, consumed, nHash, kept, plain, session, tried, resets>>

(* hashPassword, then prisma.user.create; a second create of the same *)
(* email violates the unique index and throws                         *)
Create(p) ==
    /\ Ready
    /\ req[p].pc = "create"
    /\ LET r == req[p]
           hash == hashPassword(r.password)
       IN
         IF users[r.email].exists
         THEN /\ req' = [req EXCEPT ![p] = Throw(r, "store")]
              /\ users' = users
              /\ plain' = plain
         ELSE /\ users' = [users EXCEPT ![r.email] =
                               CreatedUser(NextId, r.fullname, r.email, hash)]
              /\ req' = [req EXCEPT ![p].pc = "storeOTP"]
              /\ plain' = [plain EXCEPT ![r.email] = r.password]
    /\ nHash' = nHash + 1
    /\ UNCHANGED <<now, sent, nReq, issued, consumed, kept, session, tried, resets>>

-----------------------------------------------------------------------------
(* generateOTP + storeOTP, then sendOTP: shared by register/initiate, *)
(* login (unverified user) and forgot-password                        *)

StoreOTP(p) ==
    /\ Ready
    /\ req[p].pc = "storeOTP"
    /\ \E otp \in generateOTP :
         LET r == req[p] IN
         IF ~users[r.email].exists
         THEN /\ req' = [req EXCEPT ![p] = Throw(r, "store")]
              /\ UNCHANGED <<users, issued, consumed, kept>>
         ELSE /\ users' = [users EXCEPT ![r.email] = StoredSlot(@, otp, r.type, now)]
              /\ req' = [req EXCEPT ![p].pc = "sendOTP", ![p].genOtp = otp]
              /\ issued' = [issued EXCEPT ![r.email] =
                               Append(@, [op |-> r.op, code |-> otp, type |-> r.type,
                                          at |-> now, wins |-> 0])]
              /\ kept' = [kept EXCEPT ![r.email] =
                             SlotOf(StoredSlot(WithSlot(users[r.email], @),
                                               otp, r.type, now))]
              /\ consumed' = [consumed EXCEPT ![r.email] = Null]
    /\ UNCHANGED <<now, sent, nReq, nHash, plain, session, tried, resets>>

(* a handler that does not await sendOTP: it answers before the channel *)
(* has taken the mail, and a failure of the channel is never seen       *)
SendOTP_notAwaited(p) ==
    /\ Ready
    /\ req[p].pc = "sendOTP"
    /\ req' = [req EXCEPT ![p] = Respond(req[p], Res(200, SentMessage(req[p])))]
    /\ UNCHANGED <<users, now, sent, nReq, issued, consumed, nHash, kept, plain, session, tried, resets>>

SendOTP(p) ==
    /\ Ready
    /\ req[p].pc = "sendOTP"
    /\ \E delivered \in BOOLEAN :
         LET r == req[p] IN
         IF delivered
         THEN /\ sent' = sent \cup {[to |-> r.email, otp |-> r.genOtp, type |-> r.type]}
              /\ req' = [req EXCEPT ![p] =
                           Respond([r EXCEPT !.mailed = TRUE], Res(200, SentMessage(r)))]
         ELSE /\ sent' = sent
              /\ req' = [req EXCEPT ![p] = Throw(r, "mail")]
    /\ UNCHANGED <<users, now, nReq, issued, consumed, nHash, kept, plain, session, tried, resets>>

-----------------------------------------------------------------------------
(* verifyOTP: findUnique, then the check of line 90 on the row it returned *)
(* (at the instant the continuation runs), then the update that marks the  *)
(* code used; the awaits separate the three steps                          *)

VerifyStart(r, email, otp) ==
    [r EXCEPT !.otp = otp, !.user = findUnique(email), !.pc = "verifyCheck",
              !.seen = Len(issued[email]), !.seenConsumed = consumed[email],
              !.keptSlot = kept[email]]

(* a handler that tells the client when the email is unknown *)
VerifyFailure_tellsAbsent(r) ==
    IF r.user.exists THEN Res(400, "Invalid or expired OTP")
                     ELSE Res(404, "User not found")

(* auth.js lines 108-113 and 318-323: the answer when verifyOTP returned *)
(* false; the handler sees the boolean only                             *)
VerifyFailure(r) == Res(400, "Invalid or expired OTP")

(* verifyOTP that spends the stored code on a rejected attempt *)
VerifyCheck_burnsOnFailure(p) ==
    /\ Ready
    /\ req[p].pc = "verifyCheck"
    /\ LET r == [req[p] EXCEPT !.at = now] IN
       IF OtpRejected(r.user, r.otp, r.type, now)
       THEN /\ req' = [req EXCEPT ![p] = Respond(r, VerifyFailure(r))]
            /\ tried' = [tried EXCEPT ![r.email] = @ \cup {r.seen}]
            /\ users' = [users EXCEPT ![r.email] =
                             IF @.exists THEN MarkedUsed(@) ELSE @]
       ELSE /\ req' = [req EXCEPT ![p] = [r EXCEPT !.pc = "verifyMark"]]
            /\ UNCHANGED <<users, tried>>
    /\ UNCHANGED <<now, sent, nReq, issued, consumed, nHash, kept, plain, session, resets>>

(* `tried' remembers, per email, the issuances (by their place in `issued') *)
(* against which a verification was rejected                                *)
VerifyCheck(p) ==
    /\ Ready
    /\ req[p].pc = "verifyCheck"
    /\ LET r == [req[p] EXCEPT !.at = now] IN
       IF OtpRejected(r.user, r.otp, r.type, now)
       THEN /\ req' = [req EXCEPT ![p] = Respond(r, VerifyFailure(r))]
            /\ tried' = [tried EXCEPT ![r.email] = @ \cup {r.seen}]
       ELSE /\ req' = [req EXCEPT ![p] = [r EXCEPT !.pc = "verifyMark"]]
            /\ tried' = tried
    /\ UNCHANGED <<users, now, sent, nReq, issued, consumed, nHash, kept, plain, session, resets>>

VerifyMark(p) ==
    /\ Ready
    /\ req[p].pc = "verifyMark"
    /\ LET r == req[p] IN
       IF ~users[r.email].exists
       THEN /\ req' = [req EXCEPT ![p] = Throw(r, "store")]
            /\ UNCHANGED <<users, issued, consumed, kept>>
       ELSE /\ users' = [users EXCEPT ![r.email] = MarkedUsed(@)]
            /\ req' = [req EXCEPT ![p].verified = TRUE,
                                  ![p].pc = IF r.op = "registerVerify"
                                            THEN "rvUpdate" ELSE "rpFind"]
            /\ issued' = [issued EXCEPT ![r.email][r.seen].wins = @ + 1]
            /\ kept' = [kept EXCEPT ![r.email] =
                           SlotOf(MarkedUsed(WithSlot(users[r.email], @)))]
            /\ consumed' = [consumed EXCEPT ![r.email] = r.otp]
    /\ UNCHANGED <<now, sent, nReq, nHash, plain, session, tried, resets>>

-----------------------------------------------------------------------------
(* POST /register/verify *)

RegisterVerify(p) ==
    /\ Free(p)
    /\ \E body \in VerifyBodies :
         LET email == body.email
             otp == body.otp
             r == [NewReq("registerVerify", email) EXCEPT !.type = "registration"]
         IN  req' = Started(p,
                 IF otp = ""
                 THEN Respond(r, Res(400, "Email and OTP are required"))
                 ELSE VerifyStart(r, email, otp))
    /\ nReq' = nReq + 1
    /\ UNCHANGED <<users, now, sent, issued, consumed, nHash, kept, plain, session, tried, resets>>

(* register/verify whose update leaves isVerified as it was *)
VerifiedUser_asBefore(user) == user

(* register/verify whose update also blanks the password hash *)
VerifiedUser_resetsPassword(user) ==
    [user EXCEPT !.isVerified = TRUE, !.password = NoHash]

VerifiedUser(user) == [user EXCEPT !.isVerified = TRUE]

RvUpdate(p) ==
    /\ Ready
    /\ req[p].pc = "rvUpdate"
    /\ LET r == req[p]
           user == VerifiedUser(users[r.email])
       IN  IF ~users[r.email].exists
           THEN /\ req' = [req EXCEPT ![p] = Throw(r, "store")]
                /\ users' = users
           ELSE /\ users' = [users EXCEPT ![r.email] = user]
                /\ req' = [req EXCEPT ![p] =
                             Respond(r, ResToken(201, "User registered successfully",
                                                 generateToken(user.id, user.email)))]
    /\ UNCHANGED <<now, sent, nReq, issued, consumed, nHash, kept, plain, session, tried, resets>>

-----------------------------------------------------------------------------
(* POST /reset-password *)

ResetPassword(p) ==
    /\ Free(p)
    /\ \E body \in ResetBodies :
         LET email == body.email
             otp == body.otp
             newPassword == body.newPassword
             r == [NewReq("resetPassword", email) EXCEPT
                      !.type = "forgot_password", !.password = newPassword]
         IN  req' = Started(p,
                 IF otp = ""
                 THEN Respond(r, Res(400, "Email, OTP, and new password are required"))
                 ELSE VerifyStart(r, email, otp))
    /\ nReq' = nReq + 1
    /\ UNCHANGED <<users, now, sent, issued, consumed, nHash, kept, plain, session, tried, resets>>

(* reset-password that stores a new hash of the password the row had *)
ResetUser_rehashesOld(user, hashedPassword) ==
    [user EXCEPT !.password = [salt |-> hashedPassword.salt, pw |-> user.password.pw]]

(* reset-password whose update does not write the new hash *)
ResetUser_keepsPassword(user, hashedPassword) == user

(* reset-password that also makes the user verified *)
ResetUser_verifies(user, hashedPassword) ==
    [user EXCEPT !.password = hashedPassword, !.isVerified = TRUE]

(* lines 341-344: prisma.user.update({ data: { password: hashedPassword } }) *)
ResetUser(user, hashedPassword) == [user EXCEPT !.password = hashedPassword]

RpFind(p) ==
    /\ Ready
    /\ req[p].pc = "rpFind"
    /\ LET r == req[p]
           user == findUnique(r.email)
       IN  req' = [req EXCEPT ![p] =
                 IF ~user.exists
                 THEN Respond(r, Res(404, "User not found"))
                 ELSE [r EXCEPT !.foundId = user.id, !.pc = "rpUpdate"]]
    /\ UNCHANGED <<users, now, sent, nReq, issued, consumed, nHash, kept, plain, session, tried, resets>>

RpUpdate(p) ==
    /\ Ready
    /\ req[p].pc = "rpUpdate"
    /\ LET r == req[p]
           hashedPassword == hashPassword(r.password)
       IN
         /\ users' = [e \in Emails |->
                        IF users[e].exists /\ users[e].id = r.foundId
                        THEN ResetUser(users[e], hashedPassword)
                        ELSE users[e]]
         /\ req' = [req EXCEPT ![p] = Respond(r, Res(200, "Password reset successfully"))]
         /\ plain' = [e \in Emails |->
                        IF users[e].exists /\ users[e].id = r.foundId
                        THEN r.password ELSE plain[e]]
         /\ resets' = [e \in Emails |->
                         IF users[e].exists /\ users[e].id = r.foundId
                         THEN Append(resets[e], r.seen) ELSE resets[e]]
    /\ nHash' = nHash + 1
    /\ UNCHANGED <<now, sent, nReq, issued, consumed, kept, session, tried>>

-----------------------------------------------------------------------------
(* POST /login, behind validateLogin (normalizeEmail, password notEmpty) *)

(* login that lets every verified user in *)
LoginOutcome_anyPassword(user, password) ==
    IF ~user.exists THEN "absent"
    ELSE IF ~user.isVerified THEN "unverified"
    ELSE "match"

(* login that compares the password before it looks at isVerified *)
LoginOutcome_passwordFirst(user, password) ==
    IF ~user.exists THEN "absent"
    ELSE IF ~comparePassword(password, user.password) THEN "mismatch"
    ELSE IF ~user.isVerified THEN "unverified"
    ELSE "match"

(* login that never looks at isVerified *)
LoginOutcome_unverifiedAllowed(user, password) ==
    IF ~user.exists THEN "absent"
    ELSE IF ~comparePassword(password, user.password) THEN "mismatch"
    ELSE "match"

(* lines 168-200: which way login goes on the row it found *)
LoginOutcome(user, password) ==
    IF ~user.exists THEN "absent"
    ELSE IF ~user.isVerified THEN "unverified"
    ELSE IF ~comparePassword(password, user.password) THEN "mismatch"
    ELSE "match"

Login(p) ==
    /\ Free(p)
    /\ \E body \in LoginBodies :
         LET password == body.password
             email == normalizeEmail(body.email)
             r == [NewReq("login", email) EXCEPT
                      !.password = password, !.type = "registration"]
             user == findUnique(email)
         IN  req' = Started(p,
                 IF password = ""
                 THEN Respond(r, Res(400, "Validation failed"))
                 ELSE CASE LoginOutcome(user, password) = "absent" ->
                             Respond(r, Res(404, "User not exist"))
                        [] LoginOutcome(user, password) = "unverified" ->
                             [r EXCEPT !.user = user, !.pc = "storeOTP"]
                        [] LoginOutcome(user, password) = "mismatch" ->
                             Respond([r EXCEPT !.user = user, !.compared = TRUE],
                                     Res(401, "Invalid email or password"))
                        [] LoginOutcome(user, password) = "match" ->
                             Respond([r EXCEPT !.user = user, !.compared = TRUE],
                                     ResToken(200, "Login successful",
                                              generateToken(user.id, user.email))))
    /\ nReq' = nReq + 1
    /\ UNCHANGED <<users, now, sent, issued, consumed, nHash, kept, plain, session, tried, resets>>

-----------------------------------------------------------------------------
(* POST /forgot-password *)

ForgotBodies == {[email |-> e] : e \in Emails \cup {NoEmail}}

(* forgot-password that serves verified users only *)
ForgotOutcome_verifiedOnly(user) ==
    IF user.exists /\ user.isVerified THEN "send" ELSE "absent"

(* lines 274-284: which way forgot-password goes on the row it found *)
ForgotOutcome(user) == IF user.exists THEN "send" ELSE "absent"

ForgotPassword(p) ==
    /\ Free(p)
    /\ \E body \in ForgotBodies :
         LET email == body.email
             r == [NewReq("forgotPassword", email) EXCEPT !.type = "forgot_password"]
         IN  req' = Started(p,
                 IF email = NoEmail
                 THEN Respond(r, Res(400, "Email is required"))
                 ELSE LET user == findUnique(email) IN
                      IF ForgotOutcome(user) = "absent"
                      THEN Respond(r, Res(404, "User not found"))
                      ELSE [r EXCEPT !.user = user, !.pc = "storeOTP"])
    /\ nReq' = nReq + 1
    /\ UNCHANGED <<users, now, sent, issued, consumed, nHash, kept, plain, session, tried, resets>>

-----------------------------------------------------------------------------
(* cleanupExpiredOTPs and the wall clock *)

CleanupExpiredOTPs ==
    /\ Ready
    /\ \E e \in Emails : CleanupMatches(users[e], now)
    /\ users' = [e \in Emails |->
                   IF CleanupMatches(users[e], now) THEN ClearedSlot(users[e])
                   ELSE users[e]]
    /\ UNCHANGED <<now, sent, req, nReq, issued, consumed, nHash, kept, plain, session, tried, resets>>

Deliver(p) ==
    /\ req[p].pc = "done"
    /\ req' = [req EXCEPT ![p] = IdleReq]
    /\ UNCHANGED <<users, now, sent, nReq, issued, consumed, nHash, kept, plain, session, tried, resets>>

Tick ==
    /\ Ready
    /\ nReq + Ticks < MaxEvents
    /\ now' = now + TickMs
    /\ UNCHANGED <<users, sent, req, nReq, issued, consumed, nHash, kept, plain, session, tried, resets>>

-----------------------------------------------------------------------------

(* The store when the exploration starts: empty, or what earlier requests *)
(* left behind.  Each seed row is built with the operators of the handlers *)
(* that produce it; its code was issued at T0 (SeedNew) or half a validity *)
(* window earlier (SeedOld).                                               *)

SeedOtp == CHOOSE c \in generateOTP : TRUE
SeedPassword == "Pw1"
SeedHash == [salt |-> 0, pw |-> SeedPassword]
SeedOld == T0 - (OTP_TTL_MS \div 2)
SeedNew == T0

SeedPending(id, email, t) ==
    StoredSlot(CreatedUser(id, "Ann", email, SeedHash), SeedOtp, "registration", t)

SeedVerified(id, email, t) == VerifiedUser(MarkedUsed(SeedPending(id, email, t)))

SeedForgot(id, email, t) ==
    StoredSlot(SeedVerified(id, email, SeedOld), SeedOtp, "forgot_password", t)

Seeds ==
    { [e \in Emails |-> NoUser],
      [e \in Emails |-> IF e = Lower THEN SeedPending(1, e, SeedOld)
                                     ELSE SeedForgot(2, e, SeedNew)],
      [e \in Emails |-> IF e = Lower THEN SeedForgot(1, e, SeedOld)
                                     ELSE SeedPending(2, e, SeedNew)],
      [e \in Emails |-> IF e = Lower THEN SeedVerified(1, e, SeedNew) ELSE NoUser] }

SeedIssue(op, type, t, wins) ==
    [op |-> op, code |-> SeedOtp, type |-> type, at |-> t, wins |-> wins]

SeedIssued(user) ==
    IF ~user.exists THEN <<>>
    ELSE IF user.otpType = "forgot_password"
    THEN <<SeedIssue("registerInitiate", "registration", SeedOld, 1),
           SeedIssue("forgotPassword", "forgot_password",
                     user.otpExpiresAt - OTP_TTL_MS, 0)>>
    ELSE <<SeedIssue("registerInitiate", "registration",
                     user.otpExpiresAt - OTP_TTL_MS,
                     IF user.otpUsed THEN 1 ELSE 0)>>

SeedConsumed(user) == IF user.otpUsed THEN user.otpCode ELSE Null

SeedSent(user) ==
    IF ~user.exists THEN {}
    ELSE {[to |-> user.email, otp |-> SeedOtp, type |-> "registration"]} \cup
         (IF user.otpType = "forgot_password"
          THEN {[to |-> user.email, otp |-> SeedOtp, type |-> "forgot_password"]}
          ELSE {})

Init ==
    /\ users \in Seeds
    /\ now = T0
    /\ sent = UNION {SeedSent(users[e]) : e \in Emails}
    /\ req = [p \in Procs |-> IdleReq]
    /\ nReq = 0
    /\ nHash = 0
    /\ issued = [e \in Emails |-> SeedIssued(users[e])]
    /\ consumed = [e \in Emails |-> SeedConsumed(users[e])]
    /\ kept = [e \in Emails |-> SlotOf(users[e])]
    /\ plain = [e \in Emails |-> IF users[e].exists THEN SeedPassword ELSE ""]
    /\ session = NoSession
    /\ tried = [e \in Emails |-> {}]
    /\ resets = [e \in Emails |-> <<>>]

Next ==
    \/ \E p \in Procs : RegisterInitiate(p)
    \/ \E p \in Procs : Create(p)
    \/ \E p \in Procs : StoreOTP(p)
    \/ \E p \in Procs : SendOTP(p)
    \/ \E p \in Procs : RegisterVerify(p)
    \/ \E p \in Procs : VerifyCheck(p)
    \/ \E p \in Procs : VerifyMark(p)
    \/ \E p \in Procs : RvUpdate(p)
    \/ \E p \in Procs : ResetPassword(p)
    \/ \E p \in Procs : RpFind(p)
    \/ \E p \in Procs : RpUpdate(p)
    \/ \E p \in Procs : Login(p)
    \/ \E p \in Procs : ForgotPassword(p)
    \/ \E p \in Procs : Deliver(p)
    \/ CleanupExpiredOTPs
    \/ Tick

Spec == Init /\ [][Next]_vars

-----------------------------------------------------------------------------
(* storeOTP called on its own, with any email, code and purpose: the row *)
(* may be missing, in which case prisma.user.update throws               *)

Purposes == {"registration", "forgot_password"}

IssueCall(p) ==
    /\ Free(p)
    /\ \E email \in Emails, otp \in generateOTP, type \in Purposes :
         LET r == [NewReq("storeOTP", email) EXCEPT
                      !.type = type, !.user = findUnique(email), !.genOtp = otp]
         IN
         IF ~users[email].exists
         THEN /\ req' = Started(p, [r EXCEPT !.pc = "done", !.threw = "store"])
              /\ UNCHANGED <<users, issued, consumed, kept>>
         ELSE /\ users' = [users EXCEPT ![email] = StoredSlot(@, otp, type, now)]
              /\ req' = Started(p, [r EXCEPT !.pc = "done"])
              /\ issued' = [issued EXCEPT ![email] =
                               Append(@, [op |-> "storeOTP", code |-> otp, type |-> type,
                                          at |-> now, wins |-> 0])]
              /\ kept' = [kept EXCEPT ![email] =
                             SlotOf(StoredSlot(WithSlot(users[email], @),
                                               otp, type, now))]
              /\ consumed' = [consumed EXCEPT ![email] = Null]
    /\ nReq' = nReq + 1
    /\ UNCHANGED <<now, sent, nHash, plain, session, tried, resets>>

NextIssue ==
    \/ Next
    \/ \E p \in Procs : IssueCall(p)

SpecIssue == Init /\ [][NextIssue]_vars

(* The token functions called directly: a token is issued for a stored user *)
(* (generateToken), possibly altered by its holder, presented after some    *)
(* days (verifyToken).  `owner' remembers whom the token was issued for and *)
(* `forged' how it was altered.                                             *)
Forgeries == {"userId", "email", "exp", "secret"}

Forged(token, kind, e) ==
    CASE kind = "userId" -> [token EXCEPT !.claims.userId = @ + 1]
      [] kind = "email"  -> [token EXCEPT !.claims.email = e]
      [] kind = "exp"    -> [token EXCEPT !.claims.exp = @ + ExpiresInSeconds]
      [] OTHER           -> [token EXCEPT !.sig = jwtSignature(token.claims, OtherSecret)]

TokenIssue ==
    /\ \E e \in Emails :
         /\ users[e].exists
         /\ session' = [NoSession EXCEPT
                           !.token = jwtSign(generateToken(users[e].id, users[e].email),
                                             JWT_SECRET, now),
                           !.owner = generateToken(users[e].id, users[e].email)]
    /\ UNCHANGED <<users, now, sent, req, nReq, nHash, issued, consumed, kept, plain, tried, resets>>

TokenForge ==
    /\ session.token # NoSigned
    /\ session.forged = ""
    /\ \E kind \in Forgeries, e \in Emails :
         /\ e # session.owner.email
         /\ session' = [session EXCEPT !.token = Forged(@, kind, e), !.forged = kind,
                                       !.checked = FALSE, !.at = NullTime,
                                       !.result = NoVerdict]
    /\ UNCHANGED <<users, now, sent, req, nReq, nHash, issued, consumed, kept, plain, tried, resets>>

TokenAdvance ==
    /\ now < T0 + MaxDays * DayMs
    /\ now' = now + DayMs
    /\ UNCHANGED <<users, sent, req, nReq, nHash, issued, consumed, kept, plain, session, tried, resets>>

verifyToken(token) == jwtVerify(token, JWT_SECRET, now)

TokenVerify ==
    /\ session.token # NoSigned
    /\ session' = [session EXCEPT !.checked = TRUE, !.at = now,
                                  !.result = verifyToken(session.token)]
    /\ UNCHANGED <<users, now, sent, req, nReq, nHash, issued, consumed, kept, plain, tried, resets>>

NextToken ==
    \/ TokenIssue
    \/ TokenForge
    \/ TokenAdvance
    \/ TokenVerify

SpecToken == Init /\ [][NextToken]_vars

(* The user store failing for a reason of its own (connection lost, query   *)
(* timed out): the prisma call a request is waiting on rejects, or the      *)
(* first findUnique of a new request does, and the exception reaches the    *)
(* handler's catch block.  `threw' keeps the exception's message.           *)
StoreErrors == {"Can't reach database server", "Timed out fetching a new connection"}

StorePcs ==
    {"create", "storeOTP", "verifyCheck", "verifyMark", "rvUpdate", "rpFind", "rpUpdate"}

StoreFault(p) ==
    /\ Ready
    /\ req[p].pc \in StorePcs
    /\ \E error \in StoreErrors : req' = [req EXCEPT ![p] = Throw(req[p], error)]
    /\ UNCHANGED <<users, now, sent, nReq, nHash, issued, consumed, kept, plain, session, tried, resets>>

FirstCallFault(p) ==
    /\ Free(p)
    /\ \E op \in {"registerInitiate", "login", "forgotPassword"},
          email \in Emails, error \in StoreErrors :
         req' = Started(p, Throw(NewReq(op, email), error))
    /\ nReq' = nReq + 1
    /\ UNCHANGED <<users, now, sent, nHash, issued, consumed, kept, plain, session, tried, resets>>

NextFault ==
    \/ Next
    \/ \E p \in Procs : StoreFault(p)
    \/ \E p \in Procs : FirstCallFault(p)

SpecFault == Init /\ [][NextFault]_vars

-----------------------------------------------------------------------------
(* Properties *)

VerifyOps == {"registerVerify", "resetPassword"}

(* request p's verifyOTP call got past the check of line 90 *)
PassedCheck(p) ==
    \/ req[p].pc \in {"verifyMark", "rvUpdate", "rpFind", "rpUpdate"}
    \/ req[p].verified

(* request p's verifyOTP call returned false *)
Rejected(p) ==
    /\ req[p].op \in VerifyOps
    /\ req[p].pc = "done"
    /\ req[p].res = Res(400, "Invalid or expired OTP")

(* the issuance that was the latest one when request p read the row *)
SeenIssue(p) == issued[req[p].email][req[p].seen]

(* C1: of all verifyOTP calls that read the same issued code (concurrent or *)
(* not), at most one returns true.                                          *)
C1_AtMostOneSuccess ==
    \A e \in Emails : \A k \in 1..Len(issued[e]) : issued[e][k].wins <= 1

(* C2: single use.  A verification request that arrives after a verification *)
(* of the code it submits has returned true, with no code issued to the user *)
(* since, returns false.                                                     *)
C2_SingleUse ==
    \A p \in Procs :
        (req[p].op \in VerifyOps /\ req[p].otp # "" /\ req[p].seenConsumed = req[p].otp)
            => /\ ~PassedCheck(p)
               /\ req[p].pc = "done" => Rejected(p)

(* a request rejected for no other reason than that its code was used: the *)
(* code and purpose match the row and the code has not expired             *)
C2_Witness ==
    \E p \in Procs :
        /\ Rejected(p)
        /\ req[p].seenConsumed = req[p].otp
        /\ req[p].user.otpCode = req[p].otp
        /\ req[p].user.otpType = req[p].type
        /\ req[p].at < req[p].user.otpExpiresAt

(* C3: expiry.  A verifyOTP call passes the check only strictly before the *)
(* code's expiry, which is the instant of its issuance plus 10 minutes.    *)
C3_Expiry ==
    \A p \in Procs :
        PassedCheck(p) =>
            /\ req[p].seen >= 1
            /\ req[p].user.otpExpiresAt = SeenIssue(p).at + OTP_TTL_MS
            /\ req[p].at < SeenIssue(p).at + OTP_TTL_MS

(* a request rejected at the very instant of expiry although code, purpose *)
(* and used flag were acceptable                                           *)
C3_Witness ==
    \E p \in Procs :
        /\ Rejected(p)
        /\ req[p].user.otpCode = req[p].otp
        /\ req[p].user.otpType = req[p].type
        /\ ~req[p].user.otpUsed
        /\ req[p].at = req[p].user.otpExpiresAt

(* the (code, purpose) pairs a verifyOTP call arriving now would accept *)
Verifiable(e) ==
    {ct \in generateOTP \X {"registration", "forgot_password"} :
        ~OtpRejected(users[e], ct[1], ct[2], now)}

(* C4: re-issue overwrites.  Only the newest code verifies: a call that      *)
(* passes the check submitted the code of the latest issuance; the newest    *)
(* registration code, submitted to register-verify within its window before *)
(* any verification of it succeeded, is not rejected; and a user never has   *)
(* two codes that could verify.                                              *)
C4_NewestCodeOnly ==
    /\ \A p \in Procs : PassedCheck(p) => req[p].otp = SeenIssue(p).code
    /\ \A p \in Procs :
          (/\ req[p].op = "registerVerify"
           /\ req[p].pc = "done"
           /\ req[p].seen >= 1
           /\ req[p].otp = SeenIssue(p).code
           /\ SeenIssue(p).type = "registration"
           /\ SeenIssue(p).wins = 0
           /\ req[p].seenConsumed = Null
           /\ req[p].at # NullTime
           /\ req[p].at < SeenIssue(p).at + OTP_TTL_MS)
          => req[p].res.status = 201
    /\ \A e \in Emails : Cardinality(Verifiable(e)) <= 1

(* register-initiate ran twice for an unverified user, with different codes, *)
(* and register-verify with the second code succeeded                        *)
C4_Witness ==
    \E p \in Procs :
        /\ req[p].op = "registerVerify"
        /\ req[p].pc = "done"
        /\ req[p].res.status = 201
        /\ req[p].seen >= 2
        /\ SeenIssue(p).op = "registerInitiate"
        /\ issued[req[p].email][req[p].seen - 1].op = "registerInitiate"
        /\ issued[req[p].email][req[p].seen - 1].code # SeenIssue(p).code

(* C5: purpose binding.  reset-password passes the check only on a code that *)
(* forgot-password issued, register-verify only on one that register-       *)
(* initiate or login issued.                                                 *)
C5_PurposeBinding ==
    \A p \in Procs :
        PassedCheck(p) =>
            /\ req[p].op = "resetPassword" =>
                  SeenIssue(p).op = "forgotPassword" /\ SeenIssue(p).type = "forgot_password"
            /\ req[p].op = "registerVerify" =>
                  SeenIssue(p).op \in {"registerInitiate", "login"} /\ SeenIssue(p).type = "registration"

(* a request rejected for the purpose alone: the code equals the stored one, *)
(* unused and unexpired                                                      *)
C5_Witness ==
    \E p \in Procs :
        /\ Rejected(p)
        /\ req[p].user.otpCode = req[p].otp
        /\ req[p].user.otpType # req[p].type
        /\ ~req[p].user.otpUsed
        /\ req[p].at < req[p].user.otpExpiresAt

(* what verifyOTP did in this step, for the request in slot p *)
C6_Step(p) ==
    LET r == req[p] IN
    /\ (r.pc = "verifyCheck" /\ req'[p].pc # "verifyCheck") =>
          /\ users' = users
          /\ sent' = sent
          /\ (/\ r.user.exists
              /\ r.user.otpCode = r.otp
              /\ r.user.otpType = r.type
              /\ ~r.user.otpUsed
              /\ r.user.otpExpiresAt > now) => req'[p].pc = "verifyMark"
    /\ (r.pc = "verifyMark" /\ req'[p].pc # "verifyMark") =>
          /\ req'[p].verified
          /\ req'[p].pc \in {"rvUpdate", "rpFind"}
          /\ users' = [users EXCEPT ![r.email].otpUsed = TRUE]
          /\ sent' = sent

(* C6: successful verification.  When the row verifyOTP read exists, holds  *)
(* the submitted code with the requested purpose, unused and expiring after *)
(* now, verifyOTP returns true, and the only change it makes to the store   *)
(* is otpUsed := true on that user's row.                                   *)
C6_VerifyOnlyMarksUsed == [][\A p \in Procs : C6_Step(p)]_vars

(* verifyOTP has just returned true: the row still holds the code, its *)
(* purpose and its expiry, now marked used                             *)
C6_Witness ==
    \E p \in Procs :
        /\ req[p].pc \in {"rvUpdate", "rpFind"}
        /\ req[p].verified
        /\ users[req[p].email] = [req[p].user EXCEPT !.otpUsed = TRUE]
        /\ users[req[p].email].otpCode = req[p].otp
        /\ ~req[p].user.otpUsed

(* the mail sendOTP hands to the channel for request r *)
MailOf(r) == [to |-> r.email, otp |-> r.genOtp, type |-> r.type]

(* C7: a login that found an existing user with isVerified = false never *)
(* compares the password; it issues a registration code, overwriting the *)
(* slot, and sends it; unless the mail channel throws, it answers 200    *)
(* "Email not verified. OTP sent ..."; it never answers 401 and never    *)
(* returns a token.                                                      *)
C7_UnverifiedLoginSkipsPassword ==
    \A p \in Procs :
        LET r == req[p] IN
        (r.op = "login" /\ r.user.exists /\ ~r.user.isVerified) =>
            /\ ~r.compared
            /\ r.res.status # 401
            /\ r.res.token = NoToken
            /\ r.pc \in {"storeOTP", "sendOTP", "done"}
            /\ r.pc \in {"sendOTP", "done"} =>
                  /\ r.genOtp \in generateOTP
                  /\ \E k \in 1..Len(issued[r.email]) :
                        /\ issued[r.email][k].op = "login"
                        /\ issued[r.email][k].code = r.genOtp
                        /\ issued[r.email][k].type = "registration"
            /\ r.pc = "done" =>
                  \/ r.threw = "mail" /\ r.res.status = 500
                  \/ /\ r.res = Res(200, "Email not verified. OTP sent to your email. Please verify to login.")
                     /\ MailOf(r) \in sent

(* an unverified user logged in with a wrong password and was sent a code *)
C7_Witness ==
    \E p \in Procs :
        /\ req[p].op = "login"
        /\ req[p].pc = "done"
        /\ req[p].res.status = 200
        /\ req[p].user.exists
        /\ ~req[p].user.isVerified
        /\ ~comparePassword(req[p].password, req[p].user.password)
        /\ req[p].mailed

(* C8: register/initiate that found an existing user with isVerified = true *)
(* answers 400 "User already registered" whatever fullname and password it  *)
(* was given, and leaves the row as it found it: no code is generated,      *)
(* stored or sent.                                                          *)
C8_VerifiedUserAlreadyRegistered ==
    \A p \in Procs :
        LET r == req[p] IN
        (r.op = "registerInitiate" /\ r.user.exists /\ r.user.isVerified) =>
            /\ r.pc = "done"
            /\ r.res = Res(400, "User already registered")
            /\ users[r.email] = r.user
            /\ r.genOtp = Null
            /\ ~r.mailed

(* a verified user was refused although the request carried another *)
(* fullname and another password than the stored ones               *)
C8_Witness ==
    \E p \in Procs :
        /\ req[p].op = "registerInitiate"
        /\ req[p].pc = "done"
        /\ req[p].res.status = 400
        /\ req[p].user.exists
        /\ req[p].user.isVerified
        /\ req[p].fullname # req[p].user.fullname
        /\ ~comparePassword(req[p].password, req[p].user.password)

(* the columns register/initiate must not touch on an existing row *)
Identity(user) ==
    [password |-> user.password, fullname |-> user.fullname,
     isVerified |-> user.isVerified, exists |-> user.exists]

(* a step taken by the register/initiate request in slot p, which found an *)
(* existing user with isVerified = false                                   *)
C9_Step(p) ==
    LET r == req'[p] IN
    (/\ req[p] # r
     /\ r.op = "registerInitiate"
     /\ r.user.exists
     /\ ~r.user.isVerified) =>
        /\ \A e \in Emails : Identity(users'[e]) = Identity(users[e])
        /\ nHash' = nHash
        /\ r.pc \in {"storeOTP", "sendOTP", "done"}
        /\ r.pc = "sendOTP" =>
              /\ r.genOtp \in generateOTP
              /\ users' = [users EXCEPT ![r.email] =
                              [@ EXCEPT !.otpCode = r.genOtp,
                                        !.otpType = "registration",
                                        !.otpExpiresAt = now + OTP_TTL_MS,
                                        !.otpUsed = FALSE]]
        /\ r.pc = "done" =>
              \/ r.threw = "mail" /\ r.res.status = 500 /\ sent' = sent
              \/ /\ r.res = Res(200, "OTP sent to your email. Please verify to complete registration.")
                 /\ sent' = sent \cup {MailOf(r)}

(* C9: register/initiate for an existing user with isVerified = false      *)
(* stores a fresh registration code and sends it and, unless the mail      *)
(* channel throws, answers 200 "OTP sent ..."; no step of it hashes a      *)
(* password or changes the password hash, fullname or isVerified of a row. *)
C9_ResendKeepsIdentity == [][\A p \in Procs : C9_Step(p)]_vars

(* the request carried another password and fullname than the row, was *)
(* answered with success, and the row kept its own                     *)
C9_Witness ==
    \E p \in Procs :
        LET r == req[p] IN
        /\ r.op = "registerInitiate"
        /\ r.pc = "done"
        /\ r.res.status = 200
        /\ r.user.exists
        /\ ~r.user.isVerified
        /\ r.fullname # r.user.fullname
        /\ ~comparePassword(r.password, r.user.password)
        /\ Identity(users[r.email]) = Identity(r.user)
        /\ users[r.email].otpCode = r.genOtp

(* a step taken by the register/initiate request in slot p, which found no *)
(* user with its email                                                     *)
C10_Step(p) ==
    LET r == req'[p]
        existing == {e \in Emails : users[e].exists}
    IN
    (/\ req[p] # r
     /\ r.op = "registerInitiate"
     /\ r.password # ""
     /\ ~r.user.exists) =>
        /\ req[p].pc = "idle" =>
              r.pc = "create" /\ ~users[r.email].exists /\ users' = users
        /\ req[p].pc = "create" =>
              \/ /\ r.pc = "storeOTP"
                 /\ ~users[r.email].exists
                 /\ {e \in Emails : users'[e].exists} = existing \cup {r.email}
                 /\ \A e \in existing : users'[e] = users[e]
                 /\ users'[r.email].email = r.email
                 /\ users'[r.email].fullname = r.fullname
                 /\ ~users'[r.email].isVerified
                 /\ comparePassword(r.password, users'[r.email].password)
                 /\ users'[r.email].otpCode = Null
                 /\ \A e \in existing : users[e].id # users'[r.email].id
              \/ /\ r.pc = "done"
                 /\ r.threw = "store"
                 /\ users[r.email].exists
                 /\ users' = users
        /\ req[p].pc = "storeOTP" =>
              /\ r.pc = "sendOTP"
              /\ r.genOtp \in generateOTP
              /\ users' = [users EXCEPT ![r.email] =
                              [@ EXCEPT !.otpCode = r.genOtp,
                                        !.otpType = "registration",
                                        !.otpExpiresAt = now + OTP_TTL_MS,
                                        !.otpUsed = FALSE]]
              /\ Len(issued'[r.email]) = Len(issued[r.email]) + 1
        /\ req[p].pc = "sendOTP" =>
              /\ r.pc = "done"
              /\ users' = users
              /\ \/ r.threw = "mail" /\ r.res.status = 500 /\ sent' = sent
                 \/ /\ r.res = Res(200, "User created and OTP sent to your email. Please verify to complete registration.")
                    /\ sent' = sent \cup {MailOf(r)}

(* C10: register/initiate that found no user with its email creates one  *)
(* row, with isVerified = false and a hash of the supplied password      *)
(* (unless a concurrent request created the email first, which makes     *)
(* create throw), then stores one registration code on it, unused and    *)
(* expiring 10 minutes later, sends that code and, unless the mail       *)
(* channel throws, answers 200 "User created and OTP sent ...".          *)
C10_NewUserCreated == [][\A p \in Procs : C10_Step(p)]_vars

(* a new email was registered: the row is there, unverified, with the code *)
(* that was mailed, and the answer was success                             *)
C10_Witness ==
    \E p \in Procs :
        LET r == req[p] IN
        /\ r.op = "registerInitiate"
        /\ r.pc = "done"
        /\ r.res.status = 200
        /\ ~r.user.exists
        /\ users[r.email].exists
        /\ ~users[r.email].isVerified
        /\ comparePassword(r.password, users[r.email].password)
        /\ users[r.email].otpCode = r.genOtp
        /\ users[r.email].otpExpiresAt = now + OTP_TTL_MS
        /\ MailOf(r) \in sent

(* a step of the register/verify request in slot p that ends it *)
C11_Step(p) ==
    LET r == req[p]
        e == r.email
    IN
    (r.op = "registerVerify" /\ r.pc # "done" /\ req'[p].pc = "done") =>
        /\ r.pc \in {"verifyCheck", "rvUpdate"}
        /\ r.pc = "rvUpdate" =>
              /\ r.verified
              /\ users' = [users EXCEPT ![e].isVerified = TRUE]
              /\ req'[p].res = ResToken(201, "User registered successfully",
                                        [userId |-> users[e].id, email |-> e])
        /\ r.pc = "verifyCheck" =>
              /\ ~r.verified
              /\ req'[p].res = Res(400, "Invalid or expired OTP")
              /\ req'[p].res.token = NoToken
              /\ users' = users

(* C11: register/verify.  When verifyOTP(email, otp, 'registration')       *)
(* returned true the handler sets isVerified = true on the row and answers *)
(* 201 with a token for that user's id and email; when it returned false   *)
(* the answer is 400 "Invalid or expired OTP" without a token, and no row   *)
(* changes.                                                                *)
C11_RegisterVerify == [][\A p \in Procs : C11_Step(p)]_vars

(* an unverified user submitted the stored code and is verified now *)
C11_Witness ==
    \E p \in Procs :
        LET r == req[p] IN
        /\ r.op = "registerVerify"
        /\ r.pc = "done"
        /\ r.res.status = 201
        /\ ~r.user.isVerified
        /\ users[r.email].isVerified
        /\ r.res.token = generateToken(users[r.email].id, r.email)

(* a step of the forgot-password request in slot p *)
C12_Step(p) ==
    LET r == req'[p] IN
    (req[p] # r /\ r.op = "forgotPassword" /\ r.email # NoEmail) =>
        /\ req[p].pc = "idle" =>
              /\ users' = users
              /\ sent' = sent
              /\ issued' = issued
              /\ IF users[r.email].exists
                 THEN r.pc = "storeOTP" /\ r.type = "forgot_password"
                 ELSE r.pc = "done" /\ r.res = Res(404, "User not found")
        /\ req[p].pc = "storeOTP" =>
              /\ r.pc = "sendOTP"
              /\ r.genOtp \in generateOTP
              /\ users' = [users EXCEPT ![r.email] =
                              [@ EXCEPT !.otpCode = r.genOtp,
                                        !.otpType = "forgot_password",
                                        !.otpExpiresAt = now + OTP_TTL_MS,
                                        !.otpUsed = FALSE]]
        /\ req[p].pc = "sendOTP" =>
              /\ r.pc = "done"
              /\ users' = users
              /\ \/ r.threw = "mail" /\ r.res.status = 500 /\ sent' = sent
                 \/ /\ r.res = Res(200, "OTP sent to your email. Please verify to reset your password.")
                    /\ sent' = sent \cup {MailOf(r)}

(* C12: forgot-password for an email without a row answers 404 "User not *)
(* found" and neither writes a row nor sends anything; for an existing   *)
(* row, verified or not, it stores a forgot_password code on it, sends   *)
(* that code and, unless the mail channel throws, answers 200.           *)
C12_ForgotPassword == [][\A p \in Procs : C12_Step(p)]_vars

(* forgot-password for an unknown email was answered 404 while the table *)
(* has no row for it and no mail went to it                              *)
C12_Witness ==
    \E p \in Procs :
        LET r == req[p] IN
        /\ r.op = "forgotPassword"
        /\ r.pc = "done"
        /\ r.res = Res(404, "User not found")
        /\ r.email \in Emails
        /\ ~users[r.email].exists
        /\ issued[r.email] = <<>>
        /\ \A m \in sent : m.to # r.email

(* a step of the reset-password request in slot p after verifyOTP returned *)
C13_Step(p) ==
    LET r == req[p]
        e == r.email
    IN
    (r.op = "resetPassword" /\ req'[p] # r) =>
        /\ r.pc \in {"verifyCheck", "verifyMark", "rpFind", "rpUpdate", "done"}
        /\ (r.pc = "verifyCheck" /\ req'[p].pc = "done") =>
              /\ req'[p].res = Res(400, "Invalid or expired OTP")
              /\ users' = users
        /\ r.pc \in {"verifyCheck", "verifyMark", "rpFind"} =>
              \A u \in Emails : users'[u].password = users[u].password
        /\ r.pc = "rpFind" => users' = users /\ req'[p].pc = "rpUpdate"
        /\ r.pc = "rpUpdate" =>
              /\ r.verified
              /\ req'[p].pc = "done"
              /\ req'[p].res = Res(200, "Password reset successfully")
              /\ req'[p].res.token = NoToken
              /\ users' = [users EXCEPT ![e].password = users'[e].password]
              /\ users'[e].password # users[e].password
              /\ comparePassword(r.password, users'[e].password)
              /\ \A w \in Passwords \ {r.password} :
                    ~comparePassword(w, users'[e].password)

(* C13: reset-password.  When verifyOTP(email, otp, 'forgot_password')     *)
(* returned false the answer is 400 "Invalid or expired OTP" and no row    *)
(* changes; when it returned true the row's password becomes a new hash of *)
(* newPassword, nothing else of the row changes (isVerified included) and  *)
(* the answer is 200 without a token.                                      *)
C13_ResetPassword == [][\A p \in Procs : C13_Step(p)]_vars

(* a password was reset to another one than the row held *)
C13_Witness ==
    \E p \in Procs :
        LET r == req[p] IN
        /\ r.op = "resetPassword"
        /\ r.pc = "done"
        /\ r.res.status = 200
        /\ r.res.token = NoToken
        /\ ~comparePassword(r.password, r.user.password)
        /\ comparePassword(r.password, users[r.email].password)
        /\ users[r.email].isVerified = r.user.isVerified

(* the step in which the login request in slot p is taken up, having *)
(* passed validateLogin                                              *)
C14_Step(p) ==
    LET r == req'[p]
        u == users[r.email]
    IN
    (req[p].pc = "idle" /\ r.op = "login" /\ r.password # "") =>
        /\ users' = users
        /\ sent' = sent
        /\ issued' = issued
        /\ nHash' = nHash
        /\ ~u.exists =>
              r.pc = "done" /\ r.res = Res(404, "User not exist")
        /\ (u.exists /\ u.isVerified /\ ~comparePassword(r.password, u.password)) =>
              /\ r.pc = "done"
              /\ r.res = Res(401, "Invalid email or password")
              /\ r.res.token = NoToken
        /\ (u.exists /\ u.isVerified /\ comparePassword(r.password, u.password)) =>
              /\ r.pc = "done"
              /\ r.res = ResToken(200, "Login successful",
                                  [userId |-> u.id, email |-> u.email])

(* C14: login when the lookup finds no row answers 404 "User not exist" *)
(* and writes and sends nothing; for a row with isVerified = true a     *)
(* password that does not verify against the stored hash answers 401    *)
(* "Invalid email or password" without a token, and one that verifies   *)
(* answers 200 "Login successful" with a token for that row's id and    *)
(* email.                                                               *)
C14_LoginOutcomes == [][\A p \in Procs : C14_Step(p)]_vars

(* a verified user logged in with the stored password and got a token *)
(* for the own id                                                     *)
C14_Witness ==
    \E p \in Procs :
        LET r == req[p] IN
        /\ r.op = "login"
        /\ r.pc = "done"
        /\ r.res.status = 200
        /\ r.user.isVerified
        /\ r.compared
        /\ r.res.token = generateToken(users[r.email].id, r.email)
        /\ comparePassword(r.password, users[r.email].password)

(* C15 as stated: in every state of every row, a non-null code comes with *)
(* a non-null purpose, a non-null expiry and used = false.                *)
C15_CodeImpliesUnused ==
    \A e \in Emails :
        users[e].otpCode # Null =>
            /\ users[e].otpType # Null
            /\ users[e].otpExpiresAt # NullTime
            /\ ~users[e].otpUsed

(* C15, amended: in every state of every row, a non-null code comes with a *)
(* non-null purpose and a non-null expiry; used may be true, since a       *)
(* successful verification leaves the code in the slot.                    *)
C15_CodeImpliesPurposeAndExpiry ==
    \A e \in Emails :
        users[e].otpCode # Null =>
            /\ users[e].otpType # Null
            /\ users[e].otpExpiresAt # NullTime

(* a verification has just succeeded and the row still holds the code, *)
(* its purpose and its expiry, with used = true                        *)
C15_Witness ==
    \E p \in Procs :
        LET u == users[req[p].email] IN
        /\ req[p].verified
        /\ req[p].pc = "done"
        /\ u.otpCode = req[p].otp
        /\ u.otpType = req[p].type
        /\ u.otpExpiresAt # NullTime
        /\ u.otpUsed

(* a step in which storeOTP ran: on its own, or inside the handler of the *)
(* request in slot p                                                      *)
C16_Step(p) ==
    LET r == req'[p]
        e == r.email
        called == \/ req[p].pc = "idle" /\ r.op = "storeOTP"
                  \/ req[p].pc = "storeOTP" /\ r # req[p]
    IN
    called =>
        IF users[e].exists
        THEN /\ r.threw = ""
             /\ r.genOtp \in generateOTP
             /\ r.type \in Purposes
             /\ users' = [users EXCEPT ![e] =
                             [@ EXCEPT !.otpCode = r.genOtp,
                                       !.otpType = r.type,
                                       !.otpExpiresAt = now + OTP_TTL_MS,
                                       !.otpUsed = FALSE]]
        ELSE /\ r.threw = "store"
             /\ r.pc = "done"
             /\ users' = users

(* C16: storeOTP(email, otp, type) on an existing row sets the slot to *)
(* exactly (otp, type, now + 10 minutes, used = false) whatever it held *)
(* before and changes nothing else of that row and no other row; when   *)
(* no row has the email it throws and changes no row.                   *)
C16_IssueSetsSlot == [][\A p \in Procs : C16_Step(p)]_vars

(* storeOTP overwrote a slot whose code had been used, with another code *)
C16_Witness ==
    \E p \in Procs :
        LET r == req[p] IN
        /\ r.op = "storeOTP"
        /\ r.pc = "done"
        /\ r.user.otpUsed
        /\ r.user.otpCode # r.genOtp
        /\ r.user.otpType # r.type
        /\ users[r.email].otpCode = r.genOtp
        /\ users[r.email].otpType = r.type
        /\ users[r.email].otpExpiresAt = now + OTP_TTL_MS
        /\ ~users[r.email].otpUsed

(* C17: when the mail channel throws in register/initiate, login or       *)
(* forgot-password, the request is answered with an error, never success, *)
(* and the only state the request leaves behind is the code it stored:    *)
(* the code is in the history of issuances of the row, and the table has  *)
(* a row for the email only if it had one when the request looked it up.  *)
C17_DeliveryFailureLeavesOnlyCode ==
    \A p \in Procs :
        LET r == req[p] IN
        (r.pc = "done" /\ r.threw = "mail") =>
            /\ r.op \in {"registerInitiate", "login", "forgotPassword"}
            /\ r.res.status = 500
            /\ ~r.mailed
            /\ \E k \in 1..Len(issued[r.email]) :
                  issued[r.email][k].code = r.genOtp /\ issued[r.email][k].op = r.op
            /\ users[r.email].exists = r.user.exists

IssuingOps == {"registerInitiate", "login", "forgotPassword"}

(* the code of request r is in the history of codes stored for its email *)
Stored(r) ==
    \E k \in 1..Len(issued[r.email]) :
        /\ issued[r.email][k].op = r.op
        /\ issued[r.email][k].code = r.genOtp
        /\ issued[r.email][k].type = r.type

(* C18: on every issuing path the code is stored before sendOTP starts and *)
(* the success answer is produced only after sendOTP has completed: a      *)
(* request that is about to send has stored its code, every mail the       *)
(* channel took carries a code that was stored, and a request answered     *)
(* "OTP sent" has its code both stored and delivered.                      *)
C18_StoredThenSentThenAnswered ==
    /\ \A p \in Procs :
          LET r == req[p] IN
          /\ r.pc = "sendOTP" => Stored(r) /\ ~r.mailed /\ r.res = NoRes
          /\ r.pc = "storeOTP" => r.genOtp = Null /\ ~r.mailed /\ r.res = NoRes
          /\ (/\ r.pc = "done"
              /\ r.op \in IssuingOps
              /\ r.res.status = 200
              /\ r.res.token = NoToken) =>
                 /\ Stored(r)
                 /\ r.mailed
                 /\ MailOf(r) \in sent
    /\ \A m \in sent :
          \E k \in 1..Len(issued[m.to]) :
              issued[m.to][k].code = m.otp /\ issued[m.to][k].type = m.type

(* forgot-password was answered "OTP sent": the row holds the code and the *)
(* channel took the mail                                                   *)
C18_Witness ==
    \E p \in Procs :
        LET r == req[p] IN
        /\ r.op = "forgotPassword"
        /\ r.pc = "done"
        /\ r.res = Res(200, "OTP sent to your email. Please verify to reset your password.")
        /\ users[r.email].otpCode = r.genOtp
        /\ users[r.email].otpType = "forgot_password"
        /\ MailOf(r) \in sent

(* why verifyOTP returned false for request r, first reason that applies *)
FailureReason(r) ==
    IF ~r.user.exists THEN "absent"
    ELSE IF r.user.otpCode # r.otp THEN "wrong"
    ELSE IF r.user.otpType # r.type THEN "purpose"
    ELSE IF r.user.otpUsed THEN "used"
    ELSE IF DateValue(r.user.otpExpiresAt) <= r.at THEN "expired"
    ELSE "none"

(* C19: failure indistinguishability.  Whatever the reason verifyOTP      *)
(* returned false (no user with the email, wrong code, other purpose,     *)
(* used, expired), register/verify and reset-password answer with the one *)
(* status and message 400 "Invalid or expired OTP", so two runs that      *)
(* differ in the reason only get the same answer.                         *)
C19_FailuresLookAlike ==
    \A p \in Procs :
        LET r == req[p] IN
        (/\ r.op \in VerifyOps
         /\ r.pc = "done"
         /\ r.at # NullTime
         /\ FailureReason(r) \in {"absent", "wrong", "purpose", "used", "expired"}) =>
            /\ r.res = Res(400, "Invalid or expired OTP")
            /\ ~r.verified

(* reset-password for an email that no user has was answered like a wrong *)
(* code                                                                   *)
C19_Witness ==
    \E p \in Procs :
        LET r == req[p] IN
        /\ r.op = "resetPassword"
        /\ r.pc = "done"
        /\ r.at # NullTime
        /\ FailureReason(r) = "absent"
        /\ r.res = Res(400, "Invalid or expired OTP")

(* UNREGISTERED, PENDING_VERIFICATION or VERIFIED *)
UserState(user) ==
    IF ~user.exists THEN "UNREGISTERED"
    ELSE IF ~user.isVerified THEN "PENDING_VERIFICATION"
    ELSE "VERIFIED"

(* C20: a user only moves forward.  In every step of every handler and of *)
(* cleanup a row that exists stays, with its id, a row that is verified   *)
(* stays verified, and a row that appears is unverified.                  *)
C20_ForwardOnly ==
    [][\A e \in Emails :
          /\ users[e].exists => users'[e].exists /\ users'[e].id = users[e].id
          /\ UserState(users[e]) = "VERIFIED" => UserState(users'[e]) = "VERIFIED"
          /\ UserState(users[e]) = "UNREGISTERED" =>
                UserState(users'[e]) \in {"UNREGISTERED", "PENDING_VERIFICATION"}]_vars

(* a verified user asked for a reset code, the code expired and cleanup *)
(* emptied the slot: the row is still there, verified                   *)
C20_Witness ==
    \E e \in Emails :
        /\ UserState(users[e]) = "VERIFIED"
        /\ users[e].otpCode = Null
        /\ Len(issued[e]) >= 2
        /\ issued[e][Len(issued[e])].type = "forgot_password"
        /\ now > T0

(* C21: a run of cleanupExpiredOTPs (the only step that writes rows while *)
(* no request moves) sets code, purpose and expiry to null and used to    *)
(* false on exactly the rows whose expiry is before now, and leaves every *)
(* other row, and every other column of the rows it clears, unchanged.    *)
C21_CleanupClearsExactlyExpired ==
    [][(req' = req /\ users' # users) =>
          \A e \in Emails :
              IF users[e].exists /\ users[e].otpExpiresAt # NullTime
                                 /\ users[e].otpExpiresAt < now
              THEN users'[e] = [users[e] EXCEPT !.otpCode = Null,
                                               !.otpType = Null,
                                               !.otpExpiresAt = NullTime,
                                               !.otpUsed = FALSE]
              ELSE users'[e] = users[e]]_vars

(* cleanup has emptied the slot of one user while another user's code, *)
(* which expires at this very instant, is still in place               *)
C21_Witness ==
    \E e, f \in Emails :
        /\ users[e].exists
        /\ users[e].otpCode = Null
        /\ users[e].otpExpiresAt = NullTime
        /\ ~users[e].otpUsed
        /\ issued[e] # <<>>
        /\ users[f].otpCode # Null
        /\ users[f].otpExpiresAt = now

(* the row of e as it would be in the run without any cleanup *)
Uncleaned(e) == WithSlot(users[e], kept[e])

(* C22: cleanupExpiredOTPs does not change any outcome.  In every state a *)
(* row accepts a (code, purpose) pair exactly if the row of the run       *)
(* without cleanup accepts it; every verification that ran its check      *)
(* passed exactly if it would have passed on the row without cleanup; and *)
(* a row whose slot is cleared rejects every code.                        *)
C22_CleanupChangesNoOutcome ==
    /\ \A e \in Emails : \A c \in generateOTP : \A ty \in Purposes :
          OtpRejected(users[e], c, ty, now) = OtpRejected(Uncleaned(e), c, ty, now)
    /\ \A p \in Procs :
          LET r == req[p] IN
          (r.op \in VerifyOps /\ r.at # NullTime) =>
              (PassedCheck(p) <=>
                  ~OtpRejected(WithSlot(r.user, r.keptSlot), r.otp, r.type, r.at))
    /\ \A e \in Emails :
          (users[e].exists /\ users[e].otpCode = Null) =>
              \A c \in generateOTP : \A ty \in Purposes :
                  OtpRejected(users[e], c, ty, now)

(* a code was submitted after cleanup had emptied the slot: rejected, as *)
(* it would have been on the expired slot that cleanup emptied           *)
C22_Witness ==
    \E p \in Procs :
        LET r == req[p] IN
        /\ Rejected(p)
        /\ r.user.exists
        /\ r.user.otpCode = Null
        /\ r.keptSlot.otpCode = r.otp
        /\ r.keptSlot.otpType = r.type
        /\ ~r.keptSlot.otpUsed
        /\ r.keptSlot.otpExpiresAt < r.at

SixDigits(n) ==
    IF n < 10 THEN "00000" \o ToString(n)
    ELSE IF n < 100 THEN "0000" \o ToString(n)
    ELSE IF n < 1000 THEN "000" \o ToString(n)
    ELSE IF n < 10000 THEN "00" \o ToString(n)
    ELSE IF n < 100000 THEN "0" \o ToString(n)
    ELSE ToString(n)

(* C24: generateOTP always returns a string of 6 characters, and every *)
(* 6-digit string from 000000 to 999999 is a possible output.          *)
C24_EverySixDigitCode ==
    /\ \A c \in generateOTP : Len(c) = 6
    /\ \A p \in Procs : req[p].genOtp # Null => Len(req[p].genOtp) = 6
    /\ \A n \in OTPSamples : SixDigits(n) \in generateOTP

(* C25: session token round-trip.  A token issued for (userId, email) and   *)
(* presented unaltered before its expiry (7 days after issue) verifies, and *)
(* the payload carries that userId and email; a token whose payload was     *)
(* altered or that was signed with another secret, and a token presented at *)
(* or after its expiry, make verifyToken fail.                              *)
C25_TokenRoundTrip ==
    session.checked =>
        LET claims == session.token.claims
            v == session.result
            expired == Seconds(session.at) >= claims.iat + ExpiresInSeconds
        IN
        /\ (session.forged = "" /\ ~expired) =>
              /\ v.ok
              /\ v.payload.userId = session.owner.userId
              /\ v.payload.email = session.owner.email
        /\ session.forged # "" => (~v.ok /\ v.error = "JsonWebTokenError")
        /\ expired => ~v.ok
        /\ (session.forged = "" /\ expired) => v.error = "TokenExpiredError"

(* an unaltered token presented six days after it was issued verifies and *)
(* names its owner                                                        *)
C25_Witness ==
    /\ session.checked
    /\ session.forged = ""
    /\ session.owner.userId > 0
    /\ Seconds(session.at) = session.token.claims.iat + 6 * Seconds(DayMs)
    /\ session.result.ok
    /\ session.result.payload.userId = session.owner.userId
    /\ session.result.payload.email = session.owner.email

Handlers == {"registerInitiate", "registerVerify", "login", "forgotPassword", "resetPassword"}

(* C26: an exception of the user store or of the mail channel inside one of *)
(* the five handlers is answered with status 500 and the handler's fixed    *)
(* message, whatever the exception says; no other answer has status 500.    *)
C26_GenericFailure ==
    \A p \in Procs :
        LET r == req[p] IN
        r.pc = "done" =>
            /\ r.threw # "" =>
                  /\ r.op \in Handlers
                  /\ r.res = Res(500, FailMessage(r.op))
            /\ r.res.status = 500 => r.threw # ""

(* reset-password whose code was accepted and marked used, and whose store *)
(* then failed: answered with the fixed message                            *)
C26_Witness ==
    \E p \in Procs :
        LET r == req[p] IN
        /\ r.pc = "done"
        /\ r.op = "resetPassword"
        /\ r.verified
        /\ r.threw \in StoreErrors
        /\ r.res = Res(500, "Failed to reset password")

(* the email a handler looks the user up by: login's is normalised by *)
(* validateLogin, the others take req.body.email as it came           *)
LookupKey(op, email) == IF op = "login" THEN normalizeEmail(email) ELSE email

(* C27: email identity is case-normalized.  Two stored records never differ *)
(* in the letter case of their email only; a login answered "User not       *)
(* exist" means that no record is stored under any spelling of its email;   *)
(* and for every address the five handlers look up keys that differ in      *)
(* letter case at most.                                                     *)
C27_OneRecordPerAddress ==
    /\ \A e1, e2 \in Emails :
          (e1 # e2 /\ toLowerCase(e1) = toLowerCase(e2)) =>
              ~(users[e1].exists /\ users[e2].exists)
    /\ \A p \in Procs :
          LET r == req[p] IN
          (r.op = "login" /\ r.pc = "done" /\ r.res.status = 404) =>
              \A e \in Emails :
                  toLowerCase(e) = toLowerCase(r.email) => ~users[e].exists
    /\ \A e \in Emails \cup {Dotted} :
          \A op1, op2 \in Handlers :
              toLowerCase(LookupKey(op1, e)) = toLowerCase(LookupKey(op2, e))

C28_Step ==
    \A p \in Procs :
        LET r == req[p]
            after == req'[p]
        IN
        /\ (/\ after # r
            /\ after.op \in {"registerVerify", "resetPassword"}
            /\ \/ after.pc = "verifyCheck"
               \/ r.pc = "verifyCheck" /\ after.pc = "done") =>
              users' = users
        /\ (/\ r.pc = "verifyCheck"
            /\ after # r
            /\ r.user.exists
            /\ r.otp = r.user.otpCode
            /\ r.type = r.user.otpType
            /\ ~r.user.otpUsed
            /\ now < r.user.otpExpiresAt) =>
              after.pc = "verifyMark"

(* C28: a failed verification consumes nothing.  The steps of a            *)
(* register/verify or reset-password up to and including its rejection     *)
(* leave every user record (code slot, used flag, isVerified, password     *)
(* hash) as it was; and a verification that read the outstanding code,     *)
(* unused and unexpired, and submitted it with its purpose passes the      *)
(* check, whatever attempts were rejected before it.                       *)
C28_FailedVerificationConsumesNothing == [][C28_Step]_vars

(* a verification rejected against an issued code, then the same code *)
(* submitted correctly: accepted and answered with success            *)
C28_Witness ==
    \E p \in Procs :
        LET r == req[p] IN
        /\ r.op \in {"registerVerify", "resetPassword"}
        /\ r.pc = "done"
        /\ r.verified
        /\ r.res.status \in {200, 201}
        /\ r.seen \in tried[r.email]
        /\ r.otp = issued[r.email][r.seen].code

(* C29: a code is marked used only by a verification that submitted that *)
(* very code.  Whenever the stored code of a user is marked used, the     *)
(* verification that marked it (consumed) had submitted the stored code;  *)
(* in particular a code issued between a verification's read and its      *)
(* write is not left marked used.                                         *)
C29_MarkedOnlyBySubmitter ==
    \A e \in Emails :
        (users[e].exists /\ users[e].otpUsed) =>
            consumed[e] = users[e].otpCode

(* C30: no verified user ever holds a live registration code: a user with *)
(* isVerified = true has no stored code of purpose registration that is    *)
(* unused and unexpired.                                                   *)
C30_NoLiveRegistrationCodeOnceVerified ==
    \A e \in Emails :
        (users[e].exists /\ users[e].isVerified) =>
            ~(/\ users[e].otpCode # Null
              /\ users[e].otpType = "registration"
              /\ ~users[e].otpUsed
              /\ now < users[e].otpExpiresAt)

(* C31: a session token is returned only for a user who is verified at the *)
(* moment of the response, and only by register/verify after its code was  *)
(* accepted and isVerified set, or by login after a verified user's        *)
(* password matched; no other answer carries a token.                      *)
C31_TokenOnlyForVerified ==
    \A p \in Procs :
        LET r == req[p] IN
        (r.pc = "done" /\ r.res.token # NoToken) =>
            /\ users[r.email].exists
            /\ users[r.email].isVerified
            /\ r.res.token = generateToken(users[r.email].id, users[r.email].email)
            /\ \/ /\ r.op = "registerVerify"
                  /\ r.verified
                  /\ r.res.status = 201
               \/ /\ r.op = "login"
                  /\ r.user.isVerified
                  /\ r.compared
                  /\ comparePassword(r.password, r.user.password)
                  /\ r.res.status = 200

(* register/verify of a user it read as unverified answers with a token, *)
(* and the user is verified by then                                      *)
C31_Witness ==
    \E p \in Procs :
        LET r == req[p] IN
        /\ r.pc = "done"
        /\ r.op = "registerVerify"
        /\ r.res.token # NoToken
        /\ ~r.user.isVerified
        /\ users[r.email].isVerified

C32_Step ==
    \A e \in Emails :
        /\ (~users[e].exists /\ users'[e].exists) => ~users'[e].isVerified
        /\ (users[e].exists /\ ~users[e].isVerified /\ users'[e].isVerified) =>
              \E p \in Procs :
                  LET r == req[p] IN
                  /\ r.op = "registerVerify"
                  /\ r.email = e
                  /\ r.pc = "rvUpdate"
                  /\ r.verified
                  /\ r.type = "registration"
                  /\ r.user.otpType = "registration"
                  /\ r.user.otpCode = r.otp
                  /\ req'[p].pc = "done"
                  /\ req'[p].res.status = 201

(* C32: isVerified changes from false to true only in the update of a     *)
(* register/verify request whose verifyOTP accepted a code of purpose     *)
(* registration; a record is created unverified, and no step of any other *)
(* request or of the cleanup makes a user verified.                       *)
C32_VerifiedOnlyByRegisterVerify == [][C32_Step]_vars

(* an unverified user who went through forgot-password and a successful *)
(* reset-password is still unverified                                   *)
C32_Witness ==
    \E p \in Procs :
        LET r == req[p] IN
        /\ r.op = "resetPassword"
        /\ r.pc = "done"
        /\ r.res.status = 200
        /\ r.verified
        /\ users[r.email].exists
        /\ ~users[r.email].isVerified
        /\ plain[r.email] = r.password

C33_Step ==
    \A e \in Emails :
        (users[e].exists /\ users'[e].password # users[e].password) =>
            \E p \in Procs :
                LET r == req[p] IN
                /\ r.op = "resetPassword"
                /\ r.email = e
                /\ r.pc = "rpUpdate"
                /\ r.verified
                /\ r.type = "forgot_password"
                /\ r.user.otpType = "forgot_password"
                /\ r.user.otpCode = r.otp
                /\ comparePassword(r.password, users'[e].password)
                /\ req'[p].pc = "done"
                /\ req'[p].res.status = 200

(* C33: once a record exists, its password hash changes only in the update *)
(* of a reset-password request whose verifyOTP accepted a code of purpose   *)
(* forgot_password, and becomes a hash of that request's newPassword; every *)
(* other step, a repeated register/initiate with another password included, *)
(* leaves it unchanged.                                                     *)
C33_PasswordOnlyByReset == [][C33_Step]_vars

(* register/initiate repeated for an unverified user with another password *)
(* was answered with a new code, and the stored hash is still the old one  *)
C33_Witness ==
    \E p \in Procs :
        LET r == req[p] IN
        /\ r.op = "registerInitiate"
        /\ r.pc = "done"
        /\ r.res.status = 200
        /\ r.user.exists
        /\ r.password # plain[r.email]
        /\ users[r.email].password = r.user.password
        /\ ~comparePassword(r.password, users[r.email].password)

(* C34: each issued forgot_password code authorizes at most one password  *)
(* overwrite.  resets[e] lists, for every overwrite of the password of e, *)
(* the issuance whose code the request had submitted: no issuance occurs  *)
(* in it twice.                                                           *)
C34_OneOverwritePerCode ==
    \A e \in Emails :
        \A i, j \in DOMAIN resets[e] :
            i # j => resets[e][i] # resets[e][j]

(* the slot of user holds a code that is unused and unexpired at time t *)
Outstanding(user, t) ==
    /\ user.exists
    /\ user.otpCode # Null
    /\ ~user.otpUsed
    /\ t < user.otpExpiresAt

C35_Step ==
    /\ \A e \in Emails :
          (/\ Len(issued'[e]) = Len(issued[e]) + 1
           /\ ~users[e].isVerified
           /\ Outstanding(users[e], now)
           /\ issued'[e][Len(issued'[e])].type # users[e].otpType) =>
              LET new == issued'[e][Len(issued'[e])] IN
              /\ new.op = "forgotPassword" <=> users[e].otpType = "registration"
              /\ new.op \in {"login", "registerInitiate"} <=>
                    users[e].otpType = "forgot_password"
              /\ users'[e].otpCode = new.code
              /\ users'[e].otpType = new.type
              /\ \A c \in generateOTP :
                    OtpRejected(users'[e], c, users[e].otpType, now)
    /\ \A p \in Procs :
          LET r == req[p] IN
          (/\ r.op \in VerifyOps
           /\ r.pc = "done"
           /\ r.seen >= 2
           /\ r.at # NullTime
           /\ SeenIssue(p).type # r.type
           /\ issued[r.email][r.seen - 1].type = r.type) =>
              r.res = Res(400, "Invalid or expired OTP")

(* C35: the one slot is shared by both purposes.  When forgot-password     *)
(* issues a code to an unverified user holding an outstanding registration *)
(* code, or login or register/initiate issues one to an unverified user    *)
(* holding an outstanding forgot_password code, the slot holds the new     *)
(* code and purpose and no code of the earlier purpose verifies any more;  *)
(* a verification that reads the record after the replacement and submits  *)
(* the earlier purpose is rejected.                                        *)
C35_SlotSharedAcrossPurposes == [][C35_Step]_vars

(* forgot-password replaced the outstanding registration code of an *)
(* unverified user, and register/verify with that earlier code, in  *)
(* its window, was rejected                                         *)
C35_Witness ==
    \E p \in Procs :
        LET r == req[p] IN
        /\ r.op = "registerVerify"
        /\ r.pc = "done"
        /\ r.seen >= 2
        /\ SeenIssue(p).op = "forgotPassword"
        /\ issued[r.email][r.seen - 1].type = "registration"
        /\ issued[r.email][r.seen - 1].code = r.otp
        /\ issued[r.email][r.seen - 1].wins = 0
        /\ r.at < issued[r.email][r.seen - 1].at + OTP_TTL_MS
        /\ ~r.user.isVerified
        /\ r.res = Res(400, "Invalid or expired OTP")

(* C36: consuming a code and applying its effect go together.  A finished  *)
(* register/verify that marked a code used leaves the user verified, and a *)
(* finished reset-password that marked a code used has overwritten the     *)
(* password, also when a store call after the mark threw.                  *)
C36_ConsumedMeansApplied ==
    \A p \in Procs :
        LET r == req[p] IN
        (r.pc = "done" /\ r.verified) =>
            /\ r.op = "registerVerify" => users[r.email].isVerified
            /\ r.op = "resetPassword" =>
                  \E i \in DOMAIN resets[r.email] : resets[r.email][i] = r.seen

C37_Step ==
    /\ \A e \in Emails :
          (users[e].exists /\ ~users[e].isVerified) =>
              LET found == findUnique(LookupKey("registerInitiate", e))
                  loginFound == findUnique(LookupKey("login", e))
              IN
              /\ found.id = users[e].id
              /\ RegisterOutcome(found) = "resend"
              /\ loginFound.id = users[e].id
              /\ \A w \in Passwords : LoginOutcome(loginFound, w) = "unverified"
    /\ \A e \in Emails :
          (/\ Len(issued'[e]) = Len(issued[e]) + 1
           /\ issued'[e][Len(issued'[e])].op \in {"registerInitiate", "login"}) =>
              LET new == issued'[e][Len(issued'[e])] IN
              /\ new.type = "registration"
              /\ users'[e].otpExpiresAt = now + OTP_TTL_MS
              /\ ~OtpRejected(users'[e], new.code, "registration", now)
              /\ ~OtpRejected(users'[e], new.code, "registration", now + OTP_TTL_MS - 1)
    /\ \A p \in Procs :
          LET r == req[p] IN
          (/\ r.op = "registerVerify"
           /\ r.pc = "done"
           /\ r.at # NullTime
           /\ ~OtpRejected(r.user, r.otp, "registration", r.at)) =>
              /\ r.res.status = 201
              /\ users[r.email].isVerified

(* C37: recoverability.  For every unverified user, whatever the slot      *)
(* holds, a register/initiate and a login with the user's email find the   *)
(* user and take the branch that issues a code; the code they issue is a   *)
(* registration code that verifyOTP accepts from that moment until 10      *)
(* minutes later; and a register/verify that finds such a code makes the   *)
(* user verified and answers 201.                                          *)
C37_Recoverable == [][C37_Step]_vars

(* C38: reset then login.  For a verified user whose password was reset,   *)
(* a login with the user's email finds the user, succeeds with a token on  *)
(* the new password and is answered 401 on any other; and a reset-password *)
(* that reads the consumed code is rejected.                               *)
C38_ResetThenLogin ==
    /\ \A e \in Emails :
          (users[e].exists /\ users[e].isVerified /\ resets[e] # <<>>) =>
              LET user == findUnique(LookupKey("login", e)) IN
              /\ user.id = users[e].id
              /\ \A w \in Passwords :
                    LoginOutcome(user, w) = IF w = plain[e] THEN "match" ELSE "mismatch"
    /\ \A p \in Procs :
          LET r == req[p] IN
          (/\ r.op = "login"
           /\ r.pc = "done"
           /\ r.user.exists
           /\ r.user.isVerified
           /\ resets[r.email] # <<>>) =>
              IF r.password = plain[r.email]
              THEN r.res = ResToken(200, "Login successful",
                                    generateToken(r.user.id, r.user.email))
              ELSE r.res = Res(401, "Invalid email or password")
    /\ \A p \in Procs :
          LET r == req[p] IN
          (/\ r.op = "resetPassword"
           /\ r.pc = "done"
           /\ r.at # NullTime
           /\ r.user.otpUsed) =>
              r.res = Res(400, "Invalid or expired OTP")

====
